---------------------------- MODULE Spec2Model ----------------------------
(***************************************************************************)
(* A model of the retrieval core of the offline chatbot backend:           *)
(*   backend/vector_store.py   SimpleVectorStore (index, search, snapshot) *)
(*   backend/pdf_processor.py  PDFProcessor (chunker)                      *)
(*   backend/app.py            upload / delete / chat request handlers     *)
(*   backend/database.py       documents table                             *)
(*                                                                         *)
(* Conventions.  Python lists are sequences; Python's 0-based index i is   *)
(* position i+1 here.  A text is a sequence of whitespace-separated words  *)
(* (for the vector store) or of characters (for the chunker).  An optional *)
(* doc_id is <<>> (None) or <<d>>.  Floating point is read as exact real   *)
(* arithmetic: a stored vector [c, scale] denotes the components           *)
(* c[i] / sqrt(scale), and a similarity [num, den] denotes sqrt(num/den).  *)
(***************************************************************************)
EXTENDS Integers, Sequences, FiniteSets, TLC

(***************************************************************************)
(* Bounds of the model.                                                    *)
(***************************************************************************)
MaxDocs == 2
MaxChunks == 2
MaxIndex == 3
MaxTopK == 2
MaxFaults == 1
MaxThreads == 2
MaxTextLen == 4
MaxChunkSize == 3
MaxIters == 5
MaxLoaded == 4
MaxMessages == 4
MaxConvs == 2

(* vector_store.py:50  vocab = sorted(set(words))[:1000] *)
VocabCap == 1000

DocIds == 1..MaxDocs

(* Words that occur in texts; "A" and "B" exercise lower(). *)
Alphabet == <<"a", "b">>
ChunkTexts == { <<"b">>, <<"A", "a", "b">> }
Queries == { <<>>, <<"a">>, <<"B", "a">> }
TopKs == -1..MaxTopK
Filenames == <<"x.pdf", "y.pdf", "x.pdf">>

VARIABLES
  documents,   \* SimpleVectorStore.documents : list of chunk texts
  vectors,     \* SimpleVectorStore.vectors   : list of vectors
  metadata,    \* SimpleVectorStore.metadata  : list of metadata dicts
  disk,        \* the file vectors.pkl
  results,     \* the list returned by the last search
  last,        \* the last store operation, its arguments and the state before it
  produced,    \* per doc_id, the chunk ids handed to add_document (<<>>: none yet)
  faults,      \* how many exceptions the environment has caused so far
  db_rows,     \* documents table: per id "absent" or the row's status
  db_seq,      \* documents table: the last AUTOINCREMENT id handed out
  files,       \* ids of the documents whose uploaded file exists
  pc,          \* per request thread, where its handler stands
  req,         \* per request thread, the handler's local variables
  chunker,     \* a PDFProcessor and the locals of its chunk_text call
  database,    \* Database: the conversations and messages tables of chatbot.db
  rag,         \* the last chat_with_rag call: its arguments and what it returned
  chat         \* the /chat handler: its position, its locals and the messages table

storeVars == <<documents, vectors, metadata, disk, results, last, produced, faults>>
appVars == <<db_rows, db_seq, files, pc, req>>
ragVars == <<rag, chat>>
vars == <<storeVars, appVars, chunker, database, ragVars>>

(***************************************************************************)
(* Python helpers.                                                         *)
(***************************************************************************)
Min(a, b) == IF a <= b THEN a ELSE b
Max(a, b) == IF a >= b THEN a ELSE b

RECURSIVE SumSeq(_)
SumSeq(s) == IF s = <<>> THEN 0 ELSE s[1] + SumSeq(Tail(s))

(* list[:k] for any integer k (a negative k counts from the end). *)
PySliceTo(s, k) ==
  LET stop == IF k < 0 THEN Max(Len(s) + k, 0) ELSE Min(k, Len(s))
  IN  SubSeq(s, 1, stop)

(* del list[i] at position p (1-based). *)
RemoveAt(s, p) == SubSeq(s, 1, p - 1) \o SubSeq(s, p + 1, Len(s))

(* str.lower() on one word. *)
Lower(w) == CASE w = "A" -> "a" [] w = "B" -> "b" [] OTHER -> w

(***************************************************************************)
(* SimpleVectorStore._simple_vectorize                                     *)
(***************************************************************************)
_simple_vectorize(text) ==
  LET words == [i \in DOMAIN text |-> Lower(text[i])]
      seen == {words[i] : i \in DOMAIN words}
      sortedSet == SelectSeq(Alphabet, LAMBDA w : w \in seen)
      vocab == SubSeq(sortedSet, 1, Min(Len(sortedSet), VocabCap))
      word_freq(w) == Cardinality({i \in DOMAIN words : words[i] = w})
      vector == [i \in DOMAIN vocab |-> word_freq(vocab[i])]
      normsq == SumSeq([i \in DOMAIN vector |-> vector[i] * vector[i]])
  IN  [c |-> vector, scale |-> IF normsq > 0 THEN normsq ELSE 1]

(* The vocabulary of one _simple_vectorize call: vocab[i] is the token that *)
(* dimension i of the vector it returns counts.                            *)
VocabOf(text) ==
  LET words == [i \in DOMAIN text |-> Lower(text[i])]
      seen == {words[i] : i \in DOMAIN words}
      sortedSet == SelectSeq(Alphabet, LAMBDA w : w \in seen)
  IN  SubSeq(sortedSet, 1, Min(Len(sortedSet), VocabCap))

(***************************************************************************)
(* SimpleVectorStore._cosine_similarity.  With vi = ci / sqrt(si):         *)
(* dot = sum(c1*c2)/sqrt(s1*s2), norm_i = sqrt(sum(ci*ci)/si), so that     *)
(* dot/(norm1*norm2) = sum(c1*c2)/sqrt(sum(c1*c1)*sum(c2*c2)), which is    *)
(* >= 0 because every component is a count.                                *)
(***************************************************************************)
_cosine_similarity(vec1, vec2) ==
  LET max_len == Max(Len(vec1.c), Len(vec2.c))
      p1 == [i \in 1..max_len |-> IF i <= Len(vec1.c) THEN vec1.c[i] ELSE 0]
      p2 == [i \in 1..max_len |-> IF i <= Len(vec2.c) THEN vec2.c[i] ELSE 0]
      dot == SumSeq([i \in 1..max_len |-> p1[i] * p2[i]])
      n1 == SumSeq([i \in 1..max_len |-> p1[i] * p1[i]])
      n2 == SumSeq([i \in 1..max_len |-> p2[i] * p2[i]])
  IN  IF n1 = 0 \/ n2 = 0
        THEN [num |-> 0, den |-> 1]
        ELSE [num |-> dot * dot, den |-> n1 * n2]

(* a >= b, a > b, a = b on similarities *)
SimGeq(a, b) == a.num * b.den >= b.num * a.den
SimGt(a, b) == a.num * b.den > b.num * a.den
SimEq(a, b) == a.num * b.den = b.num * a.den


(***************************************************************************)
(* list.sort(key=lambda x: x[1], reverse=True): a stable sort, descending  *)
(* by similarity; elements with equal keys keep their original order.      *)
(***************************************************************************)
(* A sort that puts an element before the elements equal to it. *)
InsertDescBeforeEqual(sorted, x) ==
  LET p == Cardinality({j \in DOMAIN sorted : SimGt(sorted[j].sim, x.sim)})
  IN  SubSeq(sorted, 1, p) \o <<x>> \o SubSeq(sorted, p + 1, Len(sorted))

InsertDesc(sorted, x) ==
  LET p == Cardinality({j \in DOMAIN sorted : SimGeq(sorted[j].sim, x.sim)})
  IN  SubSeq(sorted, 1, p) \o <<x>> \o SubSeq(sorted, p + 1, Len(sorted))

RECURSIVE SortBySimilarityDesc(_)
SortBySimilarityDesc(s) ==
  IF s = <<>> THEN <<>>
  ELSE InsertDesc(SortBySimilarityDesc(SubSeq(s, 1, Len(s) - 1)), s[Len(s)])

(* A search loop that does not look at doc_id. *)
SkippedByFilterNever(meta, doc_id) == FALSE

(* The filter of the search loop: doc_id is not None and meta['doc_id'] != doc_id *)
SkippedByFilter(meta, doc_id) == doc_id # <<>> /\ meta.doc_id # doc_id[1]

(* The slice of the ranked list that search returns: similarities[:top_k] *)
TopSlice(ranked, top_k) == PySliceTo(ranked, top_k)

(***************************************************************************)
(* SimpleVectorStore.search on a store st = [documents, vectors, metadata] *)
(***************************************************************************)
search(st, query, top_k, doc_id) ==
  IF st.documents = <<>> THEN <<>>
  ELSE
    LET query_vector == _simple_vectorize(query)
        n == Min(Len(st.vectors), Len(st.metadata))     \* zip(vectors, metadata)
        kept == SelectSeq([i \in 1..n |-> i],
                          LAMBDA i : ~SkippedByFilter(st.metadata[i], doc_id))
        similarities == [j \in DOMAIN kept |->
                           [i |-> kept[j],
                            sim |-> _cosine_similarity(query_vector, st.vectors[kept[j]])]]
        ranked == SortBySimilarityDesc(similarities)
        top == TopSlice(ranked, top_k)
    IN  [j \in DOMAIN top |->
           [text |-> st.documents[top[j].i],
            metadata |-> st.metadata[top[j].i],
            index |-> top[j].i,          \* where it was taken from (not returned)
            distance |-> top[j].sim]]    \* denotes 1.0 - score

(***************************************************************************)
(* SimpleVectorStore.add_document: the loop over the chunks.  A chunk that *)
(* lacks the key 'text' raises KeyError before anything of it is stored;   *)
(* one that lacks 'id' (or an offset) raises while the metadata dict is    *)
(* built, after its text and vector were appended.  The except clause      *)
(* re-raises and nothing is undone.                                        *)
(***************************************************************************)
DictGetFilename(m) == IF "filename" \in DOMAIN m THEN m.filename ELSE "unknown"

AppendChunk(st, doc_id, chunk, m) ==
  IF chunk.missing = "text" THEN [st EXCEPT !.raised = TRUE]
  ELSE IF chunk.missing = "id"
    THEN [st EXCEPT !.documents = Append(@, chunk.text),
                    !.vectors = Append(@, _simple_vectorize(chunk.text)),
                    !.raised = TRUE]
    ELSE [st EXCEPT !.documents = Append(@, chunk.text),
                    !.vectors = Append(@, _simple_vectorize(chunk.text)),
                    !.metadata = Append(@, [doc_id |-> doc_id,
                                            chunk_id |-> chunk.id,
                                            filename |-> DictGetFilename(m),
                                            start_char |-> chunk.start_char,
                                            end_char |-> chunk.end_char])]

RECURSIVE AddLoop(_, _, _, _)
AddLoop(st, doc_id, chunks, m) ==
  IF chunks = <<>> \/ st.raised THEN st
  ELSE AddLoop(AppendChunk(st, doc_id, chunks[1], m), doc_id, Tail(chunks), m)

(***************************************************************************)
(* SimpleVectorStore._save: io is what the file system does.  "ok": the    *)
(* snapshot is written; "open_fails": open() raises, the old file stays;   *)
(* "dump_fails": open(..., 'wb') truncated the file and pickle.dump raised *)
(* part-way.  Every exception is caught and only printed.                  *)
(***************************************************************************)
IOOutcomes == {"ok", "open_fails", "dump_fails"}

_save(st, old, io) ==
  CASE io = "ok" -> [state |-> "valid", documents |-> st.documents,
                     vectors |-> st.vectors, metadata |-> st.metadata]
    [] io = "open_fails" -> old
    [] OTHER -> [state |-> "corrupt", documents |-> <<>>, vectors |-> <<>>,
                 metadata |-> <<>>]

EmptyStore == [documents |-> <<>>, vectors |-> <<>>, metadata |-> <<>>]

(***************************************************************************)
(* SimpleVectorStore.__init__ and _load: a fresh instance starts empty and *)
(* loads the snapshot when the file exists; a load that raises is printed  *)
(* and leaves the instance empty.                                          *)
(***************************************************************************)
(* A load that reads the metadata under a key the snapshot does not have. *)
_loadWrongKey(file) ==
  IF file.state = "valid"
    THEN [documents |-> file.documents, vectors |-> file.vectors,
          metadata |-> <<>>]
    ELSE EmptyStore

_load(file) ==
  IF file.state = "valid"
    THEN [documents |-> file.documents, vectors |-> file.vectors,
          metadata |-> file.metadata]
    ELSE EmptyStore

NewStore(file) == IF file.state = "absent" THEN EmptyStore ELSE _load(file)

(***************************************************************************)
(* SimpleVectorStore.delete_document: the indices whose metadata carries   *)
(* doc_id, then del documents[i], vectors[i], metadata[i] for each of them *)
(* from the highest down.                                                  *)
(***************************************************************************)
IndicesToDelete(metas, doc_id) ==
  SelectSeq([i \in 1..Len(metas) |-> i], LAMBDA i : metas[i].doc_id = doc_id)

Reversed(s) == [i \in DOMAIN s |-> s[Len(s) + 1 - i]]

(* The indices deleted from the lowest up. *)
DeletionOrderAscending(idx) == idx

(* sorted(indices_to_delete, reverse=True) *)
DeletionOrder(idx) == Reversed(idx)

RECURSIVE DeleteLoop(_, _)
DeleteLoop(st, order) ==
  IF order = <<>> THEN st
  ELSE DeleteLoop([documents |-> RemoveAt(st.documents, order[1]),
                   vectors |-> RemoveAt(st.vectors, order[1]),
                   metadata |-> RemoveAt(st.metadata, order[1])],
                  Tail(order))

delete_document(st, doc_id) ==
  DeleteLoop(st, DeletionOrder(IndicesToDelete(st.metadata, doc_id)))

(* count_documents *)
count_documents(st) == Len(st.documents)

Store == [documents |-> documents, vectors |-> vectors, metadata |-> metadata]


(***************************************************************************)
(* Inputs of add_document: up to MaxChunks chunks, numbered from 0 in      *)
(* emission order as chunk_text numbers them.                              *)
(***************************************************************************)
MkChunk(i, text, missing) ==
  [id |-> i - 1, text |-> text, start_char |-> i - 1, end_char |-> i,
   missing |-> missing]

WellFormedChunkLists ==
  UNION { { [i \in 1..n |-> MkChunk(i, f[i], "none")] : f \in [1..n -> ChunkTexts] } :
            n \in 0..MaxChunks }

(* The lists with one chunk that lacks a key. *)
MalformedChunkLists ==
  { [c EXCEPT ![p].missing = k] :
      <<c, p, k>> \in { x \in WellFormedChunkLists \X (1..MaxChunks) \X {"text", "id"} :
                         x[2] <= Len(x[1]) } }

ChunkLists == WellFormedChunkLists \cup MalformedChunkLists

(* The upload's metadata argument: {'filename': filename} *)
MetadataArgs(d) == { [filename |-> Filenames[((d - 1) % Len(Filenames)) + 1]] }

(* What a call costs of the environment's budget of exceptions. *)
FaultsOf(chunks, io) ==
  (IF chunks \in MalformedChunkLists THEN 1 ELSE 0) + (IF io # "ok" THEN 1 ELSE 0)

ChunkIds(chunks) == [i \in DOMAIN chunks |-> chunks[i].id]

(***************************************************************************)
(* The store used through its methods, one call at a time.                 *)
(***************************************************************************)
InitStore ==
  /\ documents = <<>>
  /\ vectors = <<>>
  /\ metadata = <<>>
  /\ disk = [state |-> "absent", documents |-> <<>>, vectors |-> <<>>,
             metadata |-> <<>>]
  /\ results = <<>>
  /\ last = [op |-> "init"]
  /\ produced = [d \in DocIds |-> <<>>]
  /\ faults = 0


(***************************************************************************)
(* PDFProcessor: __init__ and chunk_text, one loop iteration per step.  A  *)
(* text is a sequence of characters, "x" or " ".                           *)
(***************************************************************************)
Chars == {"x", " "}

Texts == UNION { [1..n -> Chars] : n \in 0..MaxTextLen }

ChunkSizes == -1..MaxChunkSize

(* PDFProcessor(chunk_size=512, chunk_overlap=50), as the application builds it *)
DefaultChunkSize == 512

DefaultChunkOverlap == 50

(* A text of 1000 characters, chunked with the application's parameters only *)
LongText == [i \in 1..1000 |-> "x"]

TextsFor(chunk_size) ==
  IF chunk_size = DefaultChunkSize THEN {LongText, <<>>} ELSE Texts

(* text[a:b] for any integers a and b *)
PySlice(s, a, b) ==
  LET lo == IF a < 0 THEN Max(a + Len(s), 0) ELSE Min(a, Len(s))
      hi == IF b < 0 THEN Max(b + Len(s), 0) ELSE Min(b, Len(s))
  IN  SubSeq(s, lo + 1, hi)

(* chunk_text.strip() is not empty *)
StripNonEmpty(s) == \E i \in DOMAIN s : s[i] # " "

AdvanceByOverlap(chunk_size, chunk_overlap) == chunk_overlap

EndCharUnclamped(end, n) == end

(* 'end_char': min(end, len(text)) *)
EndChar(end, n) == Min(end, n)

(* start += (self.chunk_size - self.chunk_overlap) *)
Advance(chunk_size, chunk_overlap) == chunk_size - chunk_overlap

InitChunker ==
  chunker = [pc |-> "new", chunk_size |-> 0, chunk_overlap |-> 0, text |-> <<>>,
             start |-> 0, chunk_id |-> 0, chunks |-> <<>>, iters |-> 0]

(* PDFProcessor(chunk_size, chunk_overlap): the two values are stored *)
PDFProcessorInit(cs, co) ==
  /\ chunker.pc = "new"
  /\ chunker' = [chunker EXCEPT !.pc = "ready", !.chunk_size = cs,
                                !.chunk_overlap = co]

(* chunk_text(text): chunks = [], start = 0, chunk_id = 0 *)
ChunkTextBegin(text) ==
  /\ chunker.pc = "ready"
  /\ chunker' = [chunker EXCEPT !.pc = "loop", !.text = text, !.start = 0,
                                !.chunk_id = 0, !.chunks = <<>>, !.iters = 0]

(* One iteration of `while start < len(text)`.  MaxIters bounds the runs   *)
(* that never leave the loop.                                              *)
ChunkLoopBody ==
  /\ chunker.pc = "loop"
  /\ chunker.start < Len(chunker.text)
  /\ chunker.iters < MaxIters
  /\ LET end == chunker.start + chunker.chunk_size
         chunk_text == PySlice(chunker.text, chunker.start, end)
         emit == StripNonEmpty(chunk_text)
     IN  chunker' =
           [chunker EXCEPT
              !.chunks = IF emit
                           THEN Append(@, [id |-> chunker.chunk_id,
                                           text |-> chunk_text,
                                           start_char |-> chunker.start,
                                           end_char |-> EndChar(end, Len(chunker.text)),
                                           length |-> Len(chunk_text)])
                           ELSE @,
              !.chunk_id = IF emit THEN @ + 1 ELSE @,
              !.start = @ + Advance(chunker.chunk_size, chunker.chunk_overlap),
              !.iters = @ + 1]

(* The loop condition is false: return chunks *)
ChunkTextReturn ==
  /\ chunker.pc = "loop"
  /\ ~(chunker.start < Len(chunker.text))
  /\ chunker' = [chunker EXCEPT !.pc = "returned"]

NextChunker ==
  \/ \E cs \in ChunkSizes, co \in ChunkSizes :
        PDFProcessorInit(cs, co) /\ UNCHANGED <<storeVars, appVars, database, ragVars>>
  \/ PDFProcessorInit(DefaultChunkSize, DefaultChunkOverlap)
        /\ UNCHANGED <<storeVars, appVars, database, ragVars>>
  \/ \E text \in TextsFor(chunker.chunk_size) :
        ChunkTextBegin(text) /\ UNCHANGED <<storeVars, appVars, database, ragVars>>
  \/ ChunkLoopBody /\ UNCHANGED <<storeVars, appVars, database, ragVars>>
  \/ ChunkTextReturn /\ UNCHANGED <<storeVars, appVars, database, ragVars>>

(***************************************************************************)
(* RAGEngine.  A result's field distance holds the similarity s and stands *)
(* for 1.0 - s, so a smaller distance is a greater similarity.             *)
(***************************************************************************)
DistanceLeq(a, b) == SimGeq(a, b)

(* A merge that sorts by descending distance. *)
InsertByDistanceReversed(sorted, x) ==
  LET p == Cardinality({j \in DOMAIN sorted : DistanceLeq(x.distance, sorted[j].distance)})
  IN  SubSeq(sorted, 1, p) \o <<x>> \o SubSeq(sorted, p + 1, Len(sorted))

(* all_results.sort(key=lambda x: x.get('distance', 1.0)): stable, ascending *)
InsertByDistance(sorted, x) ==
  LET p == Cardinality({j \in DOMAIN sorted : DistanceLeq(sorted[j].distance, x.distance)})
  IN  SubSeq(sorted, 1, p) \o <<x>> \o SubSeq(sorted, p + 1, Len(sorted))

RECURSIVE SortByDistance(_)
SortByDistance(s) ==
  IF s = <<>> THEN <<>>
  ELSE InsertByDistance(SortByDistance(SubSeq(s, 1, Len(s) - 1)), s[Len(s)])

(* retrieve_context: one search over the whole index *)
retrieve_context(st, query, top_k) == search(st, query, top_k, <<>>)

(* A loop that searches the first selected document only. *)
SearchEachDocFirstOnly(st, query, doc_ids, top_k) ==
  IF doc_ids = <<>> THEN <<>> ELSE search(st, query, top_k, <<doc_ids[1]>>)

(* The loop of retrieve_context_from_docs: all_results.extend(results) *)
RECURSIVE SearchEachDoc(_, _, _, _)
SearchEachDoc(st, query, doc_ids, top_k) ==
  IF doc_ids = <<>> THEN <<>>
  ELSE search(st, query, top_k, <<doc_ids[1]>>)
         \o SearchEachDoc(st, query, Tail(doc_ids), top_k)

(* A retrieval that returns the merged list without the final slice. *)
retrieve_context_from_docsUncut(st, query, doc_ids, top_k) ==
  SortByDistance(SearchEachDoc(st, query, doc_ids, top_k))

retrieve_context_from_docs(st, query, doc_ids, top_k) ==
  PySliceTo(SortByDistance(SearchEachDoc(st, query, doc_ids, top_k)), top_k)

(* "User" if msg['role'] == 'user' else "Assistant" *)
RoleLabel(role) == IF role = "user" THEN "User" ELSE "Assistant"

(* A history block that lists the newest message first. *)
HistoryTextNewestFirst(conversation_history) ==
  [part |-> "history",
   header |-> conversation_history # <<>>,
   lines |-> [i \in DOMAIN conversation_history |->
                [label |-> RoleLabel(conversation_history[Len(conversation_history) + 1 - i].role),
                 content |-> conversation_history[Len(conversation_history) + 1 - i].content]]]

(* history_text: empty without history, else a header and one line per message *)
HistoryText(conversation_history) ==
  [part |-> "history",
   header |-> conversation_history # <<>>,
   lines |-> [i \in DOMAIN conversation_history |->
                [label |-> RoleLabel(conversation_history[i].role),
                 content |-> conversation_history[i].content]]]

(* The prompt is the sequence of its parts, in the order of the f-string. *)
build_prompt_with_history(query, conversation_history) ==
  << [part |-> "identity"],
     HistoryText(conversation_history),
     [part |-> "message", text |-> query] >>

(* A prompt that lists the sections of the context block last-to-first. *)
ContextTextReversed(context_chunks) ==
  [part |-> "context",
   sections |-> [i \in DOMAIN context_chunks |->
                   [label |-> context_chunks[Len(context_chunks) + 1 - i].metadata.filename,
                    text |-> context_chunks[Len(context_chunks) + 1 - i].text]]]

(* context_text: "[Document: <filename>]\n<text>" per chunk *)
ContextText(context_chunks) ==
  [part |-> "context",
   sections |-> [i \in DOMAIN context_chunks |->
                   [label |-> context_chunks[i].metadata.filename,
                    text |-> context_chunks[i].text]]]

build_prompt_with_context(query, context_chunks, conversation_history) ==
  IF context_chunks = <<>>
    THEN build_prompt_with_history(query, conversation_history)
    ELSE << [part |-> "identity"],
            HistoryText(conversation_history),
            ContextText(context_chunks),
            [part |-> "message", text |-> query] >>

(* What the generation backend does with the POST. *)
BackendOutcomes == {"ok", "ok_no_response_field", "bad_status", "unreachable", "timeout"}

generate_response(prompt, backend) ==
  CASE backend = "ok" -> [raised |-> FALSE, text |-> "generated"]
    [] backend = "ok_no_response_field" ->
         [raised |-> FALSE, text |-> "Sorry, I could not generate a response."]
    [] backend = "bad_status" ->
         [raised |-> FALSE, text |-> "Error: Ollama returned status code"]
    [] OTHER -> [raised |-> FALSE, text |-> "Error generating response"]

(* A retrieval that does not look at use_rag. *)
RetrieveIgnoringUseRag(st, query, use_rag, top_k, selected_doc_ids) ==
  IF count_documents(st) > 0
    THEN IF selected_doc_ids # <<>>
           THEN [chunks |-> retrieve_context_from_docs(st, query, selected_doc_ids, top_k),
                 searches |-> [i \in DOMAIN selected_doc_ids |-> <<selected_doc_ids[i]>>]]
           ELSE [chunks |-> retrieve_context(st, query, top_k),
                 searches |-> << <<>> >>]
    ELSE [chunks |-> <<>>, searches |-> <<>>]

(* chat_with_rag, the retrieval branch: context_chunks, and the doc_id      *)
(* arguments of the searches it issued on the way.                          *)
Retrieve(st, query, use_rag, top_k, selected_doc_ids) ==
  IF use_rag /\ count_documents(st) > 0
    THEN IF selected_doc_ids # <<>>
           THEN [chunks |-> retrieve_context_from_docs(st, query, selected_doc_ids, top_k),
                 searches |-> [i \in DOMAIN selected_doc_ids |-> <<selected_doc_ids[i]>>]]
           ELSE [chunks |-> retrieve_context(st, query, top_k),
                 searches |-> << <<>> >>]
    ELSE [chunks |-> <<>>, searches |-> <<>>]

chat_with_rag(st, query, use_rag, top_k, conversation_history, selected_doc_ids, backend) ==
  LET retrieved == Retrieve(st, query, use_rag, top_k, selected_doc_ids)
      context_chunks == retrieved.chunks
      prompt == IF context_chunks # <<>>
                  THEN build_prompt_with_context(query, context_chunks, conversation_history)
                  ELSE build_prompt_with_history(query, conversation_history)
      response == generate_response(prompt, backend)
  IN  [raised |-> response.raised,
       response |-> response.text,
       has_rag_context |-> context_chunks # <<>>,
       context_chunks_used |-> Len(context_chunks),
       sources |-> [i \in DOMAIN context_chunks |-> context_chunks[i].metadata.filename],
       context_chunks |-> context_chunks,       \* local, not returned
       prompt |-> prompt,                       \* local, not returned
       searches |-> retrieved.searches]         \* the searches issued

(***************************************************************************)
(* chat_with_rag called on an index that was loaded from its snapshot.     *)
(***************************************************************************)
ChunkListsUpTo(n) ==
  UNION { { [i \in 1..k |-> MkChunk(i, f[i], "none")] : f \in [1..k -> ChunkTexts] } :
            k \in 0..n }

(* The indexes that uploads of documents 1..d leave, MaxLoaded entries at most *)
RECURSIVE StoresAfterUploads(_)
StoresAfterUploads(d) ==
  IF d = 0 THEN {EmptyStore}
  ELSE { LET r == AddLoop([documents |-> st.documents, vectors |-> st.vectors,
                           metadata |-> st.metadata, raised |-> FALSE],
                          d, chunks, CHOOSE m \in MetadataArgs(d) : TRUE)
         IN  [documents |-> r.documents, vectors |-> r.vectors, metadata |-> r.metadata] :
           <<st, chunks>> \in
             { x \in StoresAfterUploads(d - 1) \X ChunkListsUpTo(MaxLoaded) :
                 Len(x[1].documents) + Len(x[2]) <= MaxLoaded } }

LoadedStores == StoresAfterUploads(MaxDocs)

(* Lists of distinct document ids *)
SelectedDocIds ==
  { sel \in UNION { [1..n -> DocIds] : n \in 0..MaxDocs } :
      \A i, j \in DOMAIN sel : i # j => sel[i] # sel[j] }

(* chat passes top_k=3 *)
ChatTopK == 3

RagTopKs == {-1, 0, 1, ChatTopK}

Histories ==
  { <<>>,
    << [role |-> "user", content |-> "q1"] >>,
    << [role |-> "user", content |-> "q1"], [role |-> "assistant", content |-> "r1"],
       [role |-> "system", content |-> "n1"] >> }

NoCall == [pc |-> "idle"]

InitRag == rag = NoCall

(* SimpleVectorStore() found a snapshot and loaded it *)
InitLoaded ==
  /\ \E st \in LoadedStores :
        /\ documents = st.documents
        /\ vectors = st.vectors
        /\ metadata = st.metadata
        /\ disk = _save(st, [state |-> "absent", documents |-> <<>>, vectors |-> <<>>,
                             metadata |-> <<>>], "ok")
  /\ results = <<>>
  /\ last = [op |-> "init"]
  /\ produced = [d \in DocIds |-> <<>>]
  /\ faults = 0

(* A call of chat_with_rag on the index as it is *)
RagCall(query, use_rag, top_k, conversation_history, selected_doc_ids, backend) ==
  rag' = [pc |-> "returned", query |-> query, use_rag |-> use_rag, top_k |-> top_k,
          conversation_history |-> conversation_history,
          selected_doc_ids |-> selected_doc_ids, backend |-> backend,
          result |-> chat_with_rag(Store, query, use_rag, top_k,
                                   conversation_history, selected_doc_ids, backend)]

ChatWithRag(query, use_rag, top_k, conversation_history, selected_doc_ids, backend) ==
  /\ rag.pc = "idle"
  /\ RagCall(query, use_rag, top_k, conversation_history, selected_doc_ids, backend)
  /\ UNCHANGED <<storeVars, appVars, chunker, database, chat>>

(* The caller has taken the result *)
RagReturn ==
  /\ rag.pc = "returned"
  /\ rag' = NoCall
  /\ UNCHANGED <<storeVars, appVars, chunker, database, chat>>

(* Calls that vary what is retrieved *)
NextRag ==
  \/ \E query \in Queries, top_k \in RagTopKs, selected_doc_ids \in SelectedDocIds :
        ChatWithRag(query, TRUE, top_k, <<>>, selected_doc_ids, "ok")
  \/ \E query \in Queries, selected_doc_ids \in SelectedDocIds :
        ChatWithRag(query, FALSE, ChatTopK, <<>>, selected_doc_ids, "ok")
  \/ RagReturn

(* Calls that vary the history and the backend *)
NextPrompt ==
  \/ \E query \in Queries, use_rag \in BOOLEAN, conversation_history \in Histories,
        backend \in BackendOutcomes :
        ChatWithRag(query, use_rag, ChatTopK, conversation_history, <<>>, backend)
  \/ RagReturn

(***************************************************************************)
(* The /chat handler.  A message is its text ("" or one word); the         *)
(* conversation_id of a request is -1 when the key is absent, 0 for null   *)
(* (None) and the id otherwise.                                            *)
(***************************************************************************)
NoResponse ==
  [status |-> 0, fields |-> {}, response |-> "", has_rag_context |-> FALSE,
   sources |-> <<>>]

Bodies ==
  {[kind |-> "missing", message |-> "", conversation_id |-> -1, use_rag |-> "absent"],
   [kind |-> "non_object", message |-> "", conversation_id |-> -1, use_rag |-> "absent"]}
  \cup [kind : {"object"}, message : {"", "a"}, conversation_id : -1..MaxConvs,
        use_rag : {"absent", "true", "false"}]

InitChat ==
  chat = [pc |-> "init", rag_available |-> FALSE, current |-> 0, conv_seq |-> 0,
          messages |-> <<>>, before |-> <<>>,
          body |-> CHOOSE b \in Bodies : b.kind = "missing", backend |-> "ok",
          conversation_id |-> 0, use_rag |-> FALSE,
          response |-> NoResponse, escaped |-> FALSE]

(* db.save_message: one more row in the messages table *)
save_message(msgs, conversation_id, role, content, has_rag) ==
  Append(msgs, [conversation_id |-> conversation_id, role |-> role,
                content |-> content, has_rag_context |-> has_rag])

(* db.get_conversation_messages: the rows of the conversation, oldest first *)
get_conversation_messages(msgs, conversation_id) ==
  SelectSeq(msgs, LAMBDA m : m.conversation_id = conversation_id)

(* conversation_history[-11:-1] if len(conversation_history) > 10 else [:-1] *)
HistoryWindow == 10

RecentHistory(h) ==
  IF Len(h) > HistoryWindow
    THEN SubSeq(h, Len(h) - HistoryWindow, Len(h) - 1)
    ELSE SubSeq(h, 1, Len(h) - 1)

(* An except clause that lets the exception go on. *)
ExceptConnectionErrorReraise(msgs, conversation_id) ==
  [messages |-> msgs, response |-> NoResponse, escaped |-> TRUE]

(* except requests.exceptions.ConnectionError *)
ExceptConnectionError(msgs, conversation_id) ==
  [messages |-> IF conversation_id # 0
                  THEN save_message(msgs, conversation_id, "assistant",
                                    "Cannot connect to Ollama!", FALSE)
                  ELSE msgs,
   response |-> [status |-> 500, fields |-> {"error", "response", "conversation_id"},
                 response |-> "Cannot connect to Ollama!", has_rag_context |-> FALSE,
                 sources |-> <<>>],
   escaped |-> FALSE]

(* except Exception: `if conversation_id` reads the local variable, which  *)
(* is not bound when the exception came from request.get_json() or from    *)
(* data.get; the UnboundLocalError leaves the handler.                     *)
ExceptException(msgs, bound, conversation_id) ==
  IF ~bound
    THEN [messages |-> msgs, response |-> NoResponse, escaped |-> TRUE]
    ELSE [messages |-> IF conversation_id # 0
                         THEN save_message(msgs, conversation_id, "assistant",
                                           "An error occurred", FALSE)
                         ELSE msgs,
          response |-> [status |-> 500, fields |-> {"error", "response", "conversation_id"},
                        response |-> "An error occurred", has_rag_context |-> FALSE,
                        sources |-> <<>>],
          escaped |-> FALSE]

(* The end of the try block: save the answer and return it *)
Answer(msgs, conversation_id, ai_response, has_context, sources) ==
  [messages |-> save_message(msgs, conversation_id, "assistant", ai_response, has_context),
   response |-> [status |-> 200,
                 fields |-> {"response", "model", "conversation_id", "has_rag_context",
                             "sources"},
                 response |-> ai_response, has_rag_context |-> has_context,
                 sources |-> sources],
   escaped |-> FALSE]

(* The standard chat branch: requests.post and what the handler makes of it *)
StandardChat(msgs, conversation_id, backend) ==
  CASE backend = "ok" ->
         Answer(msgs, conversation_id, "generated", FALSE, <<>>)
    [] backend = "ok_no_response_field" ->
         Answer(msgs, conversation_id, "Sorry, I could not generate a response.",
                FALSE, <<>>)
    [] backend = "bad_status" ->
         Answer(msgs, conversation_id, "Sorry, the AI is having trouble right now.",
                FALSE, <<>>)
    [] backend = "unreachable" -> ExceptConnectionError(msgs, conversation_id)
    [] OTHER -> ExceptException(msgs, TRUE, conversation_id)

(* The RAG branch after chat_with_rag has returned r (or raised) *)
RagChat(msgs, conversation_id, r, backend) ==
  IF r.raised
    THEN IF backend = "unreachable"
           THEN ExceptConnectionError(msgs, conversation_id)
           ELSE ExceptException(msgs, TRUE, conversation_id)
    ELSE Answer(msgs, conversation_id, r.response, r.has_rag_context, r.sources)

(* Module load: RAG_AVAILABLE says whether the RAG imports succeeded *)
AppStart(rag_available) ==
  /\ chat.pc = "init"
  /\ chat' = [chat EXCEPT !.pc = "idle", !.rag_available = rag_available]
  /\ UNCHANGED <<storeVars, appVars, chunker, database, rag>>

(* One POST /chat, up to the first save_message: the body is read, an      *)
(* empty message is answered with 400, a conversation is created when the  *)
(* id is None, and the user's message is stored.                           *)
ChatRequest(body) ==
  /\ chat.pc = "idle"
  /\ Len(chat.messages) + 2 <= MaxMessages
  /\ LET c == [chat EXCEPT !.before = chat.messages, !.body = body]
     IN  IF body.kind # "object"
           THEN LET out == ExceptException(c.messages, FALSE, 0)
                IN  chat' = [c EXCEPT !.pc = "done", !.messages = out.messages,
                                      !.response = out.response,
                                      !.escaped = out.escaped]
           ELSE
             LET requested == IF body.conversation_id = -1 THEN c.current
                                                          ELSE body.conversation_id
                 use_rag == (IF body.use_rag = "absent" THEN c.rag_available
                                                        ELSE body.use_rag = "true")
                            /\ c.rag_available
                 created == requested = 0
                 conversation_id == IF created THEN c.conv_seq + 1 ELSE requested
             IN  IF body.message = ""
                   THEN chat' = [c EXCEPT !.pc = "done",
                                          !.response = [NoResponse EXCEPT
                                                          !.status = 400,
                                                          !.fields = {"error"}]]
                   ELSE /\ created => c.conv_seq < MaxConvs
                        /\ chat' = [c EXCEPT
                              !.pc = "generate",
                              !.conv_seq = IF created THEN @ + 1 ELSE @,
                              !.current = IF created THEN conversation_id ELSE @,
                              !.conversation_id = conversation_id,
                              !.use_rag = use_rag,
                              !.messages = save_message(@, conversation_id, "user",
                                                        body.message, FALSE)]
  /\ UNCHANGED <<storeVars, appVars, chunker, database, rag>>

(* The RAG branch: rag_engine.chat_with_rag(query, use_rag, top_k=3, history) *)
ChatCallsRag(backend) ==
  /\ chat.pc = "generate"
  /\ chat.rag_available /\ chat.use_rag
  /\ rag.pc = "idle"
  /\ RagCall(<<chat.body.message>>, chat.use_rag, ChatTopK,
             RecentHistory(get_conversation_messages(chat.messages,
                                                     chat.conversation_id)),
             <<>>, backend)
  /\ chat' = [chat EXCEPT !.pc = "rag_returned", !.backend = backend]
  /\ UNCHANGED <<storeVars, appVars, chunker, database>>

(* The RAG branch: the answer is stored and returned *)
ChatAfterRag ==
  /\ chat.pc = "rag_returned"
  /\ LET out == RagChat(chat.messages, chat.conversation_id, rag.result, chat.backend)
     IN  chat' = [chat EXCEPT !.pc = "done", !.messages = out.messages,
                              !.response = out.response, !.escaped = out.escaped]
  /\ rag' = NoCall
  /\ UNCHANGED <<storeVars, appVars, chunker, database>>

(* The standard branch: the handler posts the prompt itself *)
ChatStandard(backend) ==
  /\ chat.pc = "generate"
  /\ ~(chat.rag_available /\ chat.use_rag)
  /\ LET out == StandardChat(chat.messages, chat.conversation_id, backend)
     IN  chat' = [chat EXCEPT !.pc = "done", !.backend = backend,
                              !.messages = out.messages,
                              !.response = out.response, !.escaped = out.escaped]
  /\ UNCHANGED <<storeVars, appVars, chunker, database, rag>>

(* The response has gone out; the server takes the next request *)
ChatDone ==
  /\ chat.pc = "done"
  /\ chat' = [chat EXCEPT !.pc = "idle", !.before = <<>>, !.backend = "ok",
                          !.body = CHOOSE b \in Bodies : b.kind = "missing",
                          !.conversation_id = 0, !.use_rag = FALSE,
                          !.response = NoResponse, !.escaped = FALSE]
  /\ UNCHANGED <<storeVars, appVars, chunker, database, rag>>

NextChat ==
  \/ \E rag_available \in BOOLEAN : AppStart(rag_available)
  \/ \E body \in Bodies : ChatRequest(body)
  \/ \E backend \in BackendOutcomes : ChatCallsRag(backend)
  \/ ChatAfterRag
  \/ \E backend \in BackendOutcomes : ChatStandard(backend)
  \/ ChatDone

(***************************************************************************)
(* Database: conversations and messages.  Every method opens a connection  *)
(* of its own with sqlite3's settings as they are; whether such a          *)
(* connection enforces foreign keys is fixed by how the SQLite library was *)
(* built (off unless it was built to turn them on).                        *)
(***************************************************************************)
ConvIds == 1..MaxConvs

Roles == {"user", "assistant"}

InitDatabase ==
  database = [pc |-> "new", foreign_keys |-> FALSE, conv_seq |-> 0,
              conversations |-> {}, messages |-> <<>>, last |-> [op |-> "none"]]

(* get_connection: the connection's foreign-key enforcement *)
get_connection(db) == [foreign_keys |-> db.foreign_keys]

(* DELETE FROM conversations WHERE id = ?; the messages of the             *)
(* conversation go with it (ON DELETE CASCADE) on a connection that        *)
(* enforces foreign keys, and stay otherwise.                              *)
delete_conversation(db, conversation_id) ==
  LET conn == get_connection(db)
  IN  [db EXCEPT
         !.conversations = @ \ {conversation_id},
         !.messages = IF conn.foreign_keys /\ conversation_id \in db.conversations
                        THEN SelectSeq(@, LAMBDA m : m.conversation_id # conversation_id)
                        ELSE @]

(* Database(db_path): init_db creates the tables when they do not exist *)
DatabaseInit(foreign_keys) ==
  /\ database.pc = "new"
  /\ database' = [database EXCEPT !.pc = "ready", !.foreign_keys = foreign_keys]
  /\ UNCHANGED <<storeVars, appVars, chunker, ragVars>>

(* create_conversation: AUTOINCREMENT hands out an id never used before *)
CreateConversation ==
  /\ database.pc = "ready"
  /\ database.conv_seq < MaxConvs
  /\ database' = [database EXCEPT
                    !.conv_seq = @ + 1,
                    !.conversations = @ \cup {database.conv_seq + 1},
                    !.last = [op |-> "create_conversation",
                              conversation_id |-> database.conv_seq + 1]]
  /\ UNCHANGED <<storeVars, appVars, chunker, ragVars>>

(* save_message: the INSERT fails (IntegrityError) on a connection that    *)
(* enforces foreign keys when the conversation does not exist.             *)
SaveMessage(conversation_id, role) ==
  /\ database.pc = "ready"
  /\ Len(database.messages) < MaxMessages
  /\ LET conn == get_connection(database)
         raised == conn.foreign_keys /\ conversation_id \notin database.conversations
     IN  database' = [database EXCEPT
                        !.messages = IF raised THEN @
                                     ELSE save_message(@, conversation_id, role,
                                                       "hi", FALSE),
                        !.last = [op |-> "save_message",
                                  conversation_id |-> conversation_id,
                                  raised |-> raised]]
  /\ UNCHANGED <<storeVars, appVars, chunker, ragVars>>

(* delete_conversation(conversation_id) *)
DeleteConversation(conversation_id) ==
  /\ database.pc = "ready"
  /\ database' = [delete_conversation(database, conversation_id) EXCEPT
                    !.last = [op |-> "delete_conversation",
                              conversation_id |-> conversation_id]]
  /\ UNCHANGED <<storeVars, appVars, chunker, ragVars>>

NextDatabase ==
  \/ \E foreign_keys \in BOOLEAN : DatabaseInit(foreign_keys)
  \/ CreateConversation
  \/ \E conversation_id \in ConvIds, role \in Roles : SaveMessage(conversation_id, role)
  \/ \E conversation_id \in ConvIds : DeleteConversation(conversation_id)

(***************************************************************************)
(* The Flask application: module-level db and vector_store shared by the   *)
(* request threads (app.run serves each request in its own thread).        *)
(***************************************************************************)
Threads == 1..MaxThreads

NoReq == [kind |-> "none", doc_id |-> 0, chunks |-> <<>>, i |-> 0, idx |-> <<>>,
          query |-> <<>>, results |-> <<>>, save_failed |-> FALSE,
          response |-> "none"]

InitApp ==
  /\ db_rows = [d \in DocIds |-> "absent"]
  /\ db_seq = 0
  /\ files = {}
  /\ pc = [t \in Threads |-> "idle"]
  /\ req = [t \in Threads |-> NoReq]

(* The caller makes one call at a time and takes the result of a search    *)
(* before its next call.                                                   *)
Pending == last.op = "search"

(* add_document(doc_id, chunks, metadata); doc_id is a new row id of the   *)
(* documents table, so no doc_id is added twice.                           *)
AddDocument(d, chunks, m, io) ==
  /\ ~Pending
  /\ produced[d] = <<>>
  /\ Len(documents) + Len(chunks) <= MaxIndex
  /\ faults + FaultsOf(chunks, io) <= MaxFaults
  /\ faults' = faults + FaultsOf(chunks, io)
  /\ LET r == AddLoop([documents |-> documents, vectors |-> vectors,
                       metadata |-> metadata, raised |-> FALSE], d, chunks, m)
     IN  /\ documents' = r.documents
         /\ vectors' = r.vectors
         /\ metadata' = r.metadata
         /\ disk' = IF r.raised THEN disk ELSE _save(r, disk, io)
         /\ last' = [op |-> "add", doc_id |-> d, raised |-> r.raised,
                     saved |-> (~r.raised /\ io = "ok")]
  /\ results' = <<>>
  /\ produced' = [produced EXCEPT ![d] = <<ChunkIds(chunks)>>]

(* search(query, top_k, doc_id) *)
Search(q, k, f) ==
  /\ ~Pending
  /\ results' = search(Store, q, k, f)
  /\ last' = [op |-> "search", query |-> q, top_k |-> k, doc_id |-> f]
  /\ UNCHANGED <<documents, vectors, metadata, disk, produced, faults>>

(* delete_document(doc_id) *)
DeleteDocument(d, io) ==
  /\ ~Pending
  /\ faults + FaultsOf(<<>>, io) <= MaxFaults
  /\ faults' = faults + FaultsOf(<<>>, io)
  /\ LET r == delete_document(Store, d)
     IN  /\ documents' = r.documents
         /\ vectors' = r.vectors
         /\ metadata' = r.metadata
         /\ disk' = _save(r, disk, io)
  /\ last' = [op |-> "delete", doc_id |-> d, pre |-> Store, saved |-> io = "ok"]
  /\ results' = <<>>
  /\ UNCHANGED produced

(* _save() on this instance, then SimpleVectorStore() built on the same    *)
(* directory: the new instance replaces the old one.                       *)
SaveThenLoadFresh(io) ==
  /\ ~Pending
  /\ faults + FaultsOf(<<>>, io) <= MaxFaults
  /\ faults' = faults + FaultsOf(<<>>, io)
  /\ disk' = _save(Store, disk, io)
  /\ LET new == NewStore(disk')
     IN  /\ documents' = new.documents
         /\ vectors' = new.vectors
         /\ metadata' = new.metadata
  /\ last' = [op |-> "reload", pre |-> Store, saved |-> io = "ok"]
  /\ results' = <<>>
  /\ UNCHANGED produced

(* The process is started again: SimpleVectorStore() on the same directory *)
(* without a save before it.  What was in memory is gone; the snapshot is  *)
(* loaded when the file exists, and a load that raises (loaded = FALSE, or *)
(* a snapshot cut short by a failed dump) leaves the new instance empty.   *)
Restart(loaded) ==
  /\ ~Pending
  /\ ~loaded => (disk.state # "absent" /\ faults < MaxFaults)
  /\ faults' = IF loaded THEN faults ELSE faults + 1
  /\ LET new == IF loaded THEN NewStore(disk) ELSE EmptyStore
     IN  /\ documents' = new.documents
         /\ vectors' = new.vectors
         /\ metadata' = new.metadata
  /\ last' = [op |-> "restart", loaded |-> loaded]
  /\ results' = <<>>
  /\ UNCHANGED <<disk, produced>>

(* The caller has read the list that search returned. *)
TakeResults ==
  /\ Pending
  /\ results' = <<>>
  /\ last' = [op |-> "taken"]
  /\ UNCHANGED <<documents, vectors, metadata, disk, produced, faults>>

OptionalDocIds == {<<>>} \cup {<<d>> : d \in DocIds}

(* Calls with well-formed chunks on a file system that works. *)
NextStore ==
  \/ \E d \in DocIds, chunks \in WellFormedChunkLists :
        \E m \in MetadataArgs(d) :
           AddDocument(d, chunks, m, "ok") /\ UNCHANGED <<appVars, chunker, database, ragVars>>
  \/ \E q \in Queries, k \in TopKs, f \in OptionalDocIds :
        Search(q, k, f) /\ UNCHANGED <<appVars, chunker, database, ragVars>>
  \/ \E d \in DocIds : DeleteDocument(d, "ok") /\ UNCHANGED <<appVars, chunker, database, ragVars>>
  \/ SaveThenLoadFresh("ok") /\ UNCHANGED <<appVars, chunker, database, ragVars>>
  \/ TakeResults /\ UNCHANGED <<appVars, chunker, database, ragVars>>

(* The same calls, and up to MaxFaults calls in which a chunk lacks a key  *)
(* or the snapshot cannot be written.                                      *)
NextFaults ==
  \/ NextStore
  \/ \E d \in DocIds, chunks \in MalformedChunkLists :
        \E m \in MetadataArgs(d) :
           AddDocument(d, chunks, m, "ok") /\ UNCHANGED <<appVars, chunker, database, ragVars>>
  \/ \E d \in DocIds, chunks \in WellFormedChunkLists, io \in IOOutcomes \ {"ok"} :
        \E m \in MetadataArgs(d) :
           AddDocument(d, chunks, m, io) /\ UNCHANGED <<appVars, chunker, database, ragVars>>
  \/ \E d \in DocIds, io \in IOOutcomes \ {"ok"} :
        DeleteDocument(d, io) /\ UNCHANGED <<appVars, chunker, database, ragVars>>
  \/ \E io \in IOOutcomes \ {"ok"} : SaveThenLoadFresh(io) /\ UNCHANGED <<appVars, chunker, database, ragVars>>

(* The same, and restarts of the process *)
NextRestart ==
  \/ NextFaults
  \/ \E loaded \in BOOLEAN :
        Restart(loaded) /\ UNCHANGED <<appVars, chunker, database, ragVars>>

Init == InitStore /\ InitApp /\ InitChunker /\ InitDatabase /\ InitRag /\ InitChat

Spec == Init /\ [][NextStore]_vars

SpecFaults == Init /\ [][NextFaults]_vars

SpecRestart == Init /\ [][NextRestart]_vars

SpecChunker == Init /\ [][NextChunker]_vars

LoadedInit == InitLoaded /\ InitApp /\ InitChunker /\ InitDatabase /\ InitRag /\ InitChat

SpecRag == LoadedInit /\ [][NextRag]_vars

SpecPrompt == LoadedInit /\ [][NextPrompt]_vars

SpecChat == Init /\ [][NextChat]_vars

SpecDatabase == Init /\ [][NextDatabase]_vars

(* chunk_text is sequential code: once called it keeps executing. *)
SpecChunkerLive ==
  Init /\ [][NextChunker]_vars
       /\ WF_vars(ChunkLoopBody /\ UNCHANGED <<storeVars, appVars, database, ragVars>>)
       /\ WF_vars(ChunkTextReturn /\ UNCHANGED <<storeVars, appVars, database, ragVars>>)


(***************************************************************************)
(* Request handlers, one step per statement that reads or writes shared    *)
(* state.  `faults` bounds the exceptions the environment raises.          *)
(***************************************************************************)
(* app.py:124  top_k=3 *)
(* What process_pdf returns for the uploaded files: the chunks of a file  *)
(* of up to MaxChunks chunks, the first reading "A a b", the others "b".  *)
UploadedChunkLists ==
  { c \in WellFormedChunkLists :
      \A i \in DOMAIN c : c[i].text = (IF i = 1 THEN <<"A", "a", "b">> ELSE <<"b">>) }


MayFail == faults < MaxFaults

Finish(t, response) ==
  /\ pc' = [pc EXCEPT ![t] = "done"]
  /\ req' = [req EXCEPT ![t].response = response]

RECURSIVE TotalProduced(_)
TotalProduced(d) ==
  IF d = 0 THEN 0
  ELSE TotalProduced(d - 1) + (IF produced[d] = <<>> THEN 0 ELSE Len(produced[d][1]))

(* upload_document up to db.add_document: the file is saved, process_pdf   *)
(* extracts and chunks the text (or raises), and the row is inserted with  *)
(* status 'processing'.                                                    *)
UploadBegin(t, chunks, extracted) ==
  /\ pc[t] = "idle"
  /\ db_seq < MaxDocs
  /\ TotalProduced(MaxDocs) + Len(chunks) <= MaxIndex
  /\ IF extracted
       THEN LET d == db_seq + 1
            IN  /\ db_seq' = d
                /\ db_rows' = [db_rows EXCEPT ![d] = "processing"]
                /\ files' = files \cup {d}
                /\ produced' = [produced EXCEPT ![d] = <<ChunkIds(chunks)>>]
                /\ pc' = [pc EXCEPT ![t] = "add_loop"]
                /\ req' = [req EXCEPT ![t] = [NoReq EXCEPT !.kind = "upload",
                                                           !.doc_id = d,
                                                           !.chunks = chunks,
                                                           !.i = 1]]
                /\ UNCHANGED faults
       ELSE /\ MayFail
            /\ chunks = <<>>
            /\ faults' = faults + 1
            /\ pc' = [pc EXCEPT ![t] = "done"]
            /\ req' = [req EXCEPT ![t] = [NoReq EXCEPT !.kind = "upload",
                                                       !.response = "error"]]
            /\ UNCHANGED <<db_seq, db_rows, files, produced>>
  /\ UNCHANGED <<documents, vectors, metadata, disk, results, last>>

(* vector_store.add_document: one iteration of the loop over the chunks.   *)
AddStep(t) ==
  /\ pc[t] = "add_loop"
  /\ req[t].i <= Len(req[t].chunks)
  /\ LET d == req[t].doc_id
         r == AppendChunk([documents |-> documents, vectors |-> vectors,
                           metadata |-> metadata, raised |-> FALSE],
                          d, req[t].chunks[req[t].i],
                          CHOOSE m \in MetadataArgs(d) : TRUE)
     IN  /\ documents' = r.documents
         /\ vectors' = r.vectors
         /\ metadata' = r.metadata
  /\ req' = [req EXCEPT ![t].i = @ + 1]
  /\ UNCHANGED <<pc, disk, results, last, produced, faults, db_rows, db_seq, files>>

(* vector_store.add_document: an exception inside the loop; the except     *)
(* clause re-raises and upload_document answers 500.                       *)
AddRaise(t) ==
  /\ pc[t] = "add_loop"
  /\ req[t].i <= Len(req[t].chunks)
  /\ MayFail
  /\ faults' = faults + 1
  /\ Finish(t, "error")
  /\ UNCHANGED <<documents, vectors, metadata, disk, results, last, produced,
                 db_rows, db_seq, files>>

(* vector_store.add_document: self._save() after the loop; a failure is    *)
(* caught inside _save and add_document returns normally.                  *)
AddSave(t, io) ==
  /\ pc[t] = "add_loop"
  /\ req[t].i > Len(req[t].chunks)
  /\ io # "ok" => MayFail
  /\ faults' = faults + FaultsOf(<<>>, io)
  /\ disk' = _save(Store, disk, io)
  /\ pc' = [pc EXCEPT ![t] = "up_status"]
  /\ req' = [req EXCEPT ![t].save_failed = (io # "ok")]
  /\ UNCHANGED <<documents, vectors, metadata, results, last, produced,
                 db_rows, db_seq, files>>

(* db.update_document_status(doc_id, 'ready') and the success response, or *)
(* an exception of the database and the 500 response.                      *)
UploadStatus(t, updated) ==
  /\ pc[t] = "up_status"
  /\ IF updated
       THEN /\ db_rows' = [db_rows EXCEPT ![req[t].doc_id] =
                             IF @ = "absent" THEN @ ELSE "ready"]
            /\ Finish(t, "success")
            /\ UNCHANGED faults
       ELSE /\ MayFail
            /\ faults' = faults + 1
            /\ Finish(t, "error")
            /\ UNCHANGED db_rows
  /\ UNCHANGED <<documents, vectors, metadata, disk, results, last, produced,
                 db_seq, files>>

(* delete_document_endpoint: db.get_document_by_id *)
DeleteBegin(t, d) ==
  /\ pc[t] = "idle"
  /\ IF db_rows[d] = "absent"
       THEN /\ pc' = [pc EXCEPT ![t] = "done"]
            /\ req' = [req EXCEPT ![t] = [NoReq EXCEPT !.kind = "delete",
                                                       !.doc_id = d,
                                                       !.response = "not_found"]]
       ELSE /\ pc' = [pc EXCEPT ![t] = "del_find"]
            /\ req' = [req EXCEPT ![t] = [NoReq EXCEPT !.kind = "delete",
                                                       !.doc_id = d]]
  /\ UNCHANGED <<storeVars, db_rows, db_seq, files>>

(* vector_store.delete_document: indices_to_delete, sorted in reverse *)
DeleteFind(t) ==
  /\ pc[t] = "del_find"
  /\ pc' = [pc EXCEPT ![t] = "del_loop"]
  /\ req' = [req EXCEPT ![t].idx =
               DeletionOrder(IndicesToDelete(metadata, req[t].doc_id))]
  /\ UNCHANGED <<storeVars, db_rows, db_seq, files>>

(* vector_store.delete_document: one iteration, del documents[i],          *)
(* vectors[i], metadata[i]; an index past the end raises IndexError after  *)
(* the dels before it, and the endpoint answers 500.                       *)
DeleteStep(t) ==
  /\ pc[t] = "del_loop"
  /\ req[t].idx # <<>>
  /\ LET i == req[t].idx[1]
         okD == i <= Len(documents)
         okV == okD /\ i <= Len(vectors)
         okM == okV /\ i <= Len(metadata)
     IN  /\ documents' = IF okD THEN RemoveAt(documents, i) ELSE documents
         /\ vectors' = IF okV THEN RemoveAt(vectors, i) ELSE vectors
         /\ metadata' = IF okM THEN RemoveAt(metadata, i) ELSE metadata
         /\ IF okM
              THEN /\ req' = [req EXCEPT ![t].idx = Tail(@)]
                   /\ UNCHANGED pc
              ELSE Finish(t, "error")
  /\ UNCHANGED <<disk, results, last, produced, faults, db_rows, db_seq, files>>

(* vector_store.delete_document: self._save() after the loop *)
DeleteSave(t, io) ==
  /\ pc[t] = "del_loop"
  /\ req[t].idx = <<>>
  /\ io # "ok" => MayFail
  /\ faults' = faults + FaultsOf(<<>>, io)
  /\ disk' = _save(Store, disk, io)
  /\ pc' = [pc EXCEPT ![t] = "del_file"]
  /\ req' = [req EXCEPT ![t].save_failed = (io # "ok")]
  /\ UNCHANGED <<documents, vectors, metadata, results, last, produced,
                 db_rows, db_seq, files>>

(* delete_document_endpoint: os.path.exists / os.remove; an OSError of     *)
(* os.remove ends the request with 500.                                    *)
DeleteFile(t, removed) ==
  /\ pc[t] = "del_file"
  /\ IF req[t].doc_id \notin files
       THEN /\ removed
            /\ pc' = [pc EXCEPT ![t] = "del_db"]
            /\ UNCHANGED <<req, files, faults>>
       ELSE IF removed
         THEN /\ files' = files \ {req[t].doc_id}
              /\ pc' = [pc EXCEPT ![t] = "del_db"]
              /\ UNCHANGED <<req, faults>>
         ELSE /\ MayFail
              /\ faults' = faults + 1
              /\ Finish(t, "error")
              /\ UNCHANGED files
  /\ UNCHANGED <<documents, vectors, metadata, disk, results, last, produced,
                 db_rows, db_seq>>

(* delete_document_endpoint: db.delete_document and the success response *)
DeleteDb(t) ==
  /\ pc[t] = "del_db"
  /\ db_rows' = [db_rows EXCEPT ![req[t].doc_id] = "absent"]
  /\ Finish(t, "success")
  /\ UNCHANGED <<storeVars, db_seq, files>>

(* chat: rag_engine.chat_with_rag is entered with the user's message *)
ChatBegin(t, q) ==
  /\ pc[t] = "idle"
  /\ pc' = [pc EXCEPT ![t] = "search_run"]
  /\ req' = [req EXCEPT ![t] = [NoReq EXCEPT !.kind = "chat", !.query = q]]
  /\ UNCHANGED <<storeVars, db_rows, db_seq, files>>

(* chat_with_rag: count_documents() > 0 and vector_store.search(query, 3) *)
ChatSearch(t) ==
  /\ pc[t] = "search_run"
  /\ req' = [req EXCEPT ![t].results =
               IF count_documents(Store) > 0
                 THEN search(Store, req[t].query, ChatTopK, <<>>)
                 ELSE <<>>,
             ![t].response = "success"]
  /\ pc' = [pc EXCEPT ![t] = "done"]
  /\ UNCHANGED <<storeVars, db_rows, db_seq, files>>

(* The response is sent and the thread takes the next request. *)
Respond(t) ==
  /\ pc[t] = "done"
  /\ pc' = [pc EXCEPT ![t] = "idle"]
  /\ req' = [req EXCEPT ![t] = NoReq]
  /\ UNCHANGED <<storeVars, db_rows, db_seq, files>>

NextApp ==
  \/ \E t \in Threads, chunks \in UploadedChunkLists, extracted \in BOOLEAN :
        UploadBegin(t, chunks, extracted) /\ UNCHANGED <<chunker, database, ragVars>>
  \/ \E t \in Threads : AddStep(t) /\ UNCHANGED <<chunker, database, ragVars>>
  \/ \E t \in Threads : AddRaise(t) /\ UNCHANGED <<chunker, database, ragVars>>
  \/ \E t \in Threads, io \in IOOutcomes : AddSave(t, io) /\ UNCHANGED <<chunker, database, ragVars>>
  \/ \E t \in Threads, updated \in BOOLEAN : UploadStatus(t, updated) /\ UNCHANGED <<chunker, database, ragVars>>
  \/ \E t \in Threads, d \in DocIds : DeleteBegin(t, d) /\ UNCHANGED <<chunker, database, ragVars>>
  \/ \E t \in Threads : DeleteFind(t) /\ UNCHANGED <<chunker, database, ragVars>>
  \/ \E t \in Threads : DeleteStep(t) /\ UNCHANGED <<chunker, database, ragVars>>
  \/ \E t \in Threads, io \in IOOutcomes : DeleteSave(t, io) /\ UNCHANGED <<chunker, database, ragVars>>
  \/ \E t \in Threads, removed \in BOOLEAN : DeleteFile(t, removed) /\ UNCHANGED <<chunker, database, ragVars>>
  \/ \E t \in Threads : DeleteDb(t) /\ UNCHANGED <<chunker, database, ragVars>>
  \/ \E t \in Threads, q \in Queries : ChatBegin(t, q) /\ UNCHANGED <<chunker, database, ragVars>>
  \/ \E t \in Threads : ChatSearch(t) /\ UNCHANGED <<chunker, database, ragVars>>
  \/ \E t \in Threads : Respond(t) /\ UNCHANGED <<chunker, database, ragVars>>

SpecApp == Init /\ [][NextApp]_vars

(***************************************************************************)
(* Deletion requests on an application that was started with documents     *)
(* already uploaded: the index was loaded from its snapshot, every         *)
(* document has its row ('ready') and its file.                            *)
(***************************************************************************)
(* The chunk ids of document d in the store st, in index order *)
ChunkIdsOf(st, d) ==
  LET pos == IndicesToDelete(st.metadata, d)
  IN  [j \in DOMAIN pos |-> st.metadata[pos[j]].chunk_id]

InitUploaded ==
  /\ \E st \in LoadedStores :
        /\ documents = st.documents
        /\ vectors = st.vectors
        /\ metadata = st.metadata
        /\ disk = _save(st, [state |-> "absent", documents |-> <<>>, vectors |-> <<>>,
                             metadata |-> <<>>], "ok")
        /\ produced = [d \in DocIds |-> <<ChunkIdsOf(st, d)>>]
  /\ results = <<>>
  /\ last = [op |-> "init"]
  /\ faults = 0
  /\ db_rows = [d \in DocIds |-> "ready"]
  /\ db_seq = MaxDocs
  /\ files = DocIds
  /\ pc = [t \in Threads |-> "idle"]
  /\ req = [t \in Threads |-> NoReq]

(* DELETE /api/documents/<doc_id> requests, served in threads; the file    *)
(* system works.                                                           *)
NextDeletes ==
  \/ \E t \in Threads, d \in DocIds :
        DeleteBegin(t, d) /\ UNCHANGED <<chunker, database, ragVars>>
  \/ \E t \in Threads : DeleteFind(t) /\ UNCHANGED <<chunker, database, ragVars>>
  \/ \E t \in Threads : DeleteStep(t) /\ UNCHANGED <<chunker, database, ragVars>>
  \/ \E t \in Threads : DeleteSave(t, "ok") /\ UNCHANGED <<chunker, database, ragVars>>
  \/ \E t \in Threads : DeleteFile(t, TRUE) /\ UNCHANGED <<chunker, database, ragVars>>
  \/ \E t \in Threads : DeleteDb(t) /\ UNCHANGED <<chunker, database, ragVars>>
  \/ \E t \in Threads : Respond(t) /\ UNCHANGED <<chunker, database, ragVars>>

UploadedInit == InitUploaded /\ InitChunker /\ InitDatabase /\ InitRag /\ InitChat

SpecDeletes == UploadedInit /\ [][NextDeletes]_vars

(***************************************************************************)
(*                               Claims                                    *)
(***************************************************************************)
Searched == last.op = "search"

OrderedBySimilarity(rs) ==
  \A j, k \in DOMAIN rs : j < k => SimGeq(rs[j].distance, rs[k].distance)

TiesInInsertionOrder(rs) ==
  \A j, k \in DOMAIN rs :
     (j < k /\ SimEq(rs[j].distance, rs[k].distance)) => rs[j].index < rs[k].index

(* C1, as stated: for any index contents, any query and any top_k, search  *)
(* returns at most top_k results, ordered by non-increasing similarity,    *)
(* entries of equal similarity in insertion order.  (A top_k below 0 is    *)
(* read as asking for no result.)                                          *)
C1_AnyTopK ==
  Searched => /\ Len(results) <= Max(last.top_k, 0)
              /\ OrderedBySimilarity(results)
              /\ TiesInInsertionOrder(results)

(* C1, amended: for any index contents and any query, search returns at    *)
(* most top_k results when top_k >= 0, and for every top_k the results are *)
(* ordered by non-increasing similarity (non-decreasing distance), entries *)
(* of equal similarity in insertion order.                                 *)
C1_SearchRanked ==
  Searched => /\ last.top_k >= 0 => Len(results) <= last.top_k
              /\ OrderedBySimilarity(results)
              /\ TiesInInsertionOrder(results)

(* C1 witness: a search with top_k = 2 over three matching entries returns *)
(* two results of equal, non-zero similarity, cut from a longer ranking.   *)
C1_Witness ==
  /\ Searched
  /\ last.top_k = 2
  /\ last.doc_id = <<>>
  /\ Len(metadata) = 3
  /\ Len(results) = 2
  /\ SimEq(results[1].distance, results[2].distance)
  /\ results[1].distance.num > 0

(* C2: search returns only entries held in the index, each at most once,   *)
(* and with a doc_id filter only entries of that document; on an empty     *)
(* index, or when no entry matches the filter, the result is empty.        *)
C2_SearchWithinIndex ==
  Searched =>
    /\ \A j \in DOMAIN results :
         /\ results[j].index \in DOMAIN metadata
         /\ results[j].text = documents[results[j].index]
         /\ results[j].metadata = metadata[results[j].index]
         /\ last.doc_id # <<>> => results[j].metadata.doc_id = last.doc_id[1]
    /\ \A j, k \in DOMAIN results : j # k => results[j].index # results[k].index
    /\ documents = <<>> => results = <<>>
    /\ (last.doc_id # <<>> /\ \A i \in DOMAIN metadata :
                                  metadata[i].doc_id # last.doc_id[1])
          => results = <<>>

(* C2 witness: a filtered search over an index that holds chunks of two    *)
(* documents returns chunks.                                               *)
C2_Witness ==
  /\ Searched
  /\ last.doc_id = <<1>>
  /\ \E i \in DOMAIN metadata : metadata[i].doc_id = 2
  /\ Len(results) >= 1

KeptPositions(st, d) ==
  SelectSeq([i \in 1..Len(st.metadata) |-> i], LAMBDA i : st.metadata[i].doc_id # d)

(* C3: delete_document(doc_id) removes exactly the entries whose metadata  *)
(* carries doc_id; the others stay, in the same order, text, vector and    *)
(* metadata still paired; count_documents() drops by the number removed;   *)
(* with no entry of doc_id nothing changes.                                *)
C3_DeleteExact ==
  last.op = "delete" =>
    LET keep == KeptPositions(last.pre, last.doc_id)
    IN  /\ documents = [j \in DOMAIN keep |-> last.pre.documents[keep[j]]]
        /\ vectors = [j \in DOMAIN keep |-> last.pre.vectors[keep[j]]]
        /\ metadata = [j \in DOMAIN keep |-> last.pre.metadata[keep[j]]]
        /\ count_documents(Store) =
             count_documents(last.pre)
               - Len(IndicesToDelete(last.pre.metadata, last.doc_id))
        /\ Len(keep) = Len(last.pre.metadata) => Store = last.pre

(* C3 witness: a delete removed two entries and left another one.          *)
C3_Witness ==
  /\ last.op = "delete"
  /\ Len(last.pre.documents) = 3
  /\ Len(documents) = 1

ChunkIdsInIndex(d) ==
  LET pos == IndicesToDelete(metadata, d)
  IN  [j \in DOMAIN pos |-> metadata[pos[j]].chunk_id]

(* C5: for each doc_id present in the index, the chunk ids attached to it  *)
(* are exactly the chunk ids ingestion produced, each once.                *)
C5_NoPartialInsert ==
  \A d \in DocIds :
     (\E i \in DOMAIN metadata : metadata[i].doc_id = d) =>
        /\ produced[d] # <<>>
        /\ ChunkIdsInIndex(d) = produced[d][1]

InvalidParameters ==
  chunker.chunk_overlap >= chunker.chunk_size \/ chunker.chunk_size <= 0

(* C6: when the upload that created a document record has ended, the       *)
(* record has left 'processing': it is 'ready' if the upload succeeded and *)
(* 'error' if extraction or indexing raised.                               *)
C6_LeavesProcessing ==
  \A t \in Threads :
     (pc[t] = "done" /\ req[t].kind = "upload" /\ req[t].doc_id # 0
        /\ db_rows[req[t].doc_id] # "absent")
     => db_rows[req[t].doc_id] =
          (IF req[t].response = "success" THEN "ready" ELSE "error")

(* C7: whenever no request is being handled, every chunk that ingestion    *)
(* produced for a document whose status is 'ready' is in the index.        *)
C7_ReadyIsIndexed ==
  (\A t \in Threads : pc[t] = "idle") =>
     \A d \in DocIds :
        db_rows[d] = "ready" =>
           /\ produced[d] # <<>>
           /\ ChunkIdsInIndex(d) = produced[d][1]

(* C8: an upload whose snapshot write failed inside add_document ends with *)
(* an error response and its document is not marked 'ready'.               *)
C8_SaveFailureSurfaces ==
  \A t \in Threads :
     (pc[t] = "done" /\ req[t].kind = "upload" /\ req[t].save_failed)
     => /\ req[t].response = "error"
        /\ db_rows[req[t].doc_id] \in {"error", "absent"}

(* The thread is between the first append of add_document and its save *)
InAdd(t) == pc[t] = "add_loop" /\ req[t].i > 1

(* The thread is between the index scan of delete_document and its save *)
InDelete(t) == pc[t] = "del_loop"

Mutating(t) == InAdd(t) \/ InDelete(t)

(* The step runs vector_store.search for thread t *)
SearchRuns(t) == pc[t] = "search_run" /\ pc'[t] # "search_run"

(* C9: while an add_document or a delete_document is in progress, no other *)
(* add or delete on the index is in progress and no search runs.           *)
C9_SingleWriter ==
  /\ [](\A t, u \in Threads : (t # u /\ Mutating(t)) => ~Mutating(u))
  /\ [][\A t, u \in Threads : (t # u /\ SearchRuns(t)) => ~Mutating(u)]_vars

(* C10: with chunk_overlap >= chunk_size or chunk_size <= 0 the chunking   *)
(* loop is never started (chunking fails with a configuration error).      *)
C10_RejectsInvalid ==
  InvalidParameters => chunker.pc \notin {"loop", "returned"}

ValidParameters ==
  0 <= chunker.chunk_overlap /\ chunker.chunk_overlap < chunker.chunk_size

InLoop == chunker.pc = "loop"

Returned == chunker.pc = "returned"

(* C11: with 0 <= chunk_overlap < chunk_size, every call of chunk_text     *)
(* returns, for the empty text too; each iteration adds chunk_size -       *)
(* chunk_overlap to start, an iteration runs only while start < len(text), *)
(* and the call returns only when start >= len(text).                      *)
C11_Terminates ==
  /\ (InLoop /\ ValidParameters) ~> Returned
  /\ [][(InLoop /\ ValidParameters /\ chunker'.pc = "loop" /\ chunker' # chunker)
          => /\ chunker.start < Len(chunker.text)
             /\ chunker'.start =
                  chunker.start + (chunker.chunk_size - chunker.chunk_overlap)]_vars
  /\ [][(InLoop /\ ValidParameters /\ chunker'.pc = "returned")
          => chunker.start >= Len(chunker.text)]_vars
  /\ [](InLoop /\ ValidParameters /\ chunker.start >= Len(chunker.text)
          => ~ENABLED ChunkLoopBody)

C11_Witness ==
  Returned /\ ValidParameters /\ chunker.iters >= 2 /\ chunker.chunk_overlap > 0

(* C12: with 0 <= chunk_overlap < chunk_size, when chunk_text has returned *)
(* at least one chunk, the end_char of the last chunk equals len(text),    *)
(* also when the trailing window was whitespace-only and skipped.          *)
C12_LastChunkEndsAtLen ==
  (Returned /\ ValidParameters /\ chunker.chunks # <<>>)
  => chunker.chunks[Len(chunker.chunks)].end_char = Len(chunker.text)

ChunkStep == chunker.chunk_size - chunker.chunk_overlap

(* Every returned chunk spans [start_char, min(start_char + chunk_size, len)) *)
ChunksSpanWindows ==
  \A i \in DOMAIN chunker.chunks :
     LET c == chunker.chunks[i]
     IN  /\ c.id = i - 1
         /\ c.end_char = Min(c.start_char + chunker.chunk_size, Len(chunker.text))
         /\ c.text = SubSeq(chunker.text, c.start_char + 1, c.end_char)
         /\ c.length = c.end_char - c.start_char

(* The window starting at offset s holds only whitespace *)
WhitespaceWindow(s) ==
  \A p \in (s + 1)..Min(s + chunker.chunk_size, Len(chunker.text)) :
     chunker.text[p] = " "

LongTextChunked ==
  (chunker.text = LongText /\ chunker.chunk_size = DefaultChunkSize
     /\ chunker.chunk_overlap = DefaultChunkOverlap)
  => [i \in DOMAIN chunker.chunks |->
        <<chunker.chunks[i].start_char, chunker.chunks[i].end_char>>]
       = << <<0, 512>>, <<462, 974>>, <<924, 1000>> >>

(* C13 as stated: the start offsets of successive returned chunks differ   *)
(* by exactly chunk_size - chunk_overlap, each chunk spans [start,         *)
(* min(start + chunk_size, len)), and 1000 characters with 512/50 give     *)
(* [0,512), [462,974), [924,1000).                                         *)
C13_StartsIncreaseByStep ==
  (Returned /\ ValidParameters) =>
     /\ \A i \in 1..(Len(chunker.chunks) - 1) :
           chunker.chunks[i + 1].start_char = chunker.chunks[i].start_char + ChunkStep
     /\ ChunksSpanWindows
     /\ LongTextChunked

(* C13, amended: the start offsets of successive returned chunks strictly  *)
(* increase by a positive multiple of chunk_size - chunk_overlap, the      *)
(* windows stepped over in between being exactly the whitespace-only ones  *)
(* (so the difference is exactly one step when the next window is not      *)
(* whitespace-only); the first chunk starts at the first window that is    *)
(* not whitespace-only; each chunk spans [start, min(start + chunk_size,   *)
(* len)); 1000 non-whitespace characters with 512/50 give [0,512),         *)
(* [462,974), [924,1000).                                                  *)
C13_StartsIncreaseBySteps ==
  (Returned /\ ValidParameters) =>
     /\ \A i \in DOMAIN chunker.chunks :
           LET prev == IF i = 1 THEN 0 - ChunkStep
                                ELSE chunker.chunks[i - 1].start_char
               this == chunker.chunks[i].start_char
           IN  /\ this > prev
               /\ (this - prev) % ChunkStep = 0
               /\ ~WhitespaceWindow(this)
               /\ \A k \in 1..((this - prev) \div ChunkStep - 1) :
                     WhitespaceWindow(prev + k * ChunkStep)
     /\ ChunksSpanWindows
     /\ LongTextChunked

C13_Witness ==
  /\ Returned /\ ValidParameters
  /\ Len(chunker.chunks) >= 2
  /\ chunker.chunk_overlap > 0
  /\ chunker.chunks[2].start_char > chunker.chunks[1].start_char + ChunkStep

RagReturned == rag.pc = "returned"

(* C14: a chat_with_rag call with use_rag false, or with use_rag true on   *)
(* an empty index, issues no search and returns has_rag_context false,     *)
(* sources [] and zero chunks used, whatever the index and the selected    *)
(* documents are.                                                          *)
C14_NoRetrievalWithoutRag ==
  (RagReturned /\ (~rag.use_rag \/ documents = <<>>))
  => /\ rag.result.searches = <<>>
     /\ rag.result.has_rag_context = FALSE
     /\ rag.result.sources = <<>>
     /\ rag.result.context_chunks_used = 0

C14_Witness ==
  /\ RagReturned /\ ~rag.use_rag
  /\ Len(documents) >= 2
  /\ rag.selected_doc_ids # <<>>
  /\ rag.query # <<>>

(* The candidates of a multi-document retrieval: the per-document searches, *)
(* concatenated in the order of selected_doc_ids.                          *)
Pool == SearchEachDoc(Store, rag.query, rag.selected_doc_ids, rag.top_k)

DistanceLess(a, b) == SimGt(a, b)

(* How many candidates come before candidate p in ascending distance,     *)
(* candidates of equal distance in pool order.                             *)
RankInPool(pool, p) ==
  Cardinality({ q \in DOMAIN pool :
                  \/ DistanceLess(pool[q].distance, pool[p].distance)
                  \/ (SimEq(pool[q].distance, pool[p].distance) /\ q < p) })

(* The context chunks are the n candidates of lowest rank, in rank order *)
IsRankedPrefix(pool, chunks, n) ==
  /\ Len(chunks) = n
  /\ \A i \in 1..n :
        \E p \in DOMAIN pool : RankInPool(pool, p) = i - 1 /\ chunks[i] = pool[p]

MultiDocRetrieval ==
  RagReturned /\ rag.use_rag /\ documents # <<>> /\ rag.selected_doc_ids # <<>>

(* C15 as stated: for every top_k, the context chunks are the first top_k  *)
(* candidates of the ascending-distance sort of the pool, at most top_k in *)
(* total.                                                                  *)
C15_MergeAnyTopK ==
  MultiDocRetrieval =>
     LET pool == Pool
     IN  /\ IsRankedPrefix(pool, rag.result.context_chunks,
                           Len(rag.result.context_chunks))
         /\ Len(rag.result.context_chunks) <= Max(rag.top_k, 0)
         /\ Len(rag.result.context_chunks) = Min(Max(rag.top_k, 0), Len(pool))

(* C15, amended: the context chunks are the slice [:top_k] of the          *)
(* ascending-distance sort (ties in pool order) of the pool; for           *)
(* top_k >= 0 these are its first min(top_k, len(pool)) candidates, so at  *)
(* most top_k chunks are used, and for top_k < 0 they are all but its last *)
(* -top_k candidates.                                                      *)
C15_MergeThenTruncate ==
  MultiDocRetrieval =>
     /\ rag.result.searches =
          [i \in DOMAIN rag.selected_doc_ids |-> <<rag.selected_doc_ids[i]>>]
     /\ LET pool == Pool
        IN  IsRankedPrefix(pool, rag.result.context_chunks,
                           IF rag.top_k >= 0 THEN Min(rag.top_k, Len(pool))
                                             ELSE Max(Len(pool) + rag.top_k, 0))
     /\ rag.top_k >= 0 => Len(rag.result.context_chunks) <= rag.top_k

C15_Witness ==
  /\ MultiDocRetrieval
  /\ Len(rag.selected_doc_ids) = 2
  /\ rag.top_k = ChatTopK
  /\ Len(Pool) > rag.top_k
  /\ rag.result.context_chunks[1].metadata.doc_id = rag.selected_doc_ids[2]
  /\ \E i \in DOMAIN rag.result.context_chunks :
        rag.result.context_chunks[i].metadata.doc_id = rag.selected_doc_ids[1]

(* The index positions that hold chunks of document d *)
IndexedChunksOf(d) == { i \in DOMAIN metadata : metadata[i].doc_id = d }

(* The distance of index entry i from the query of the call *)
DistanceOfEntry(i) == _cosine_similarity(_simple_vectorize(rag.query), vectors[i])

TwoDocRetrieval ==
  /\ MultiDocRetrieval
  /\ rag.top_k = ChatTopK
  /\ Len(rag.selected_doc_ids) = 2
  /\ rag.selected_doc_ids[1] # rag.selected_doc_ids[2]
  /\ \A j \in 1..2 : IndexedChunksOf(rag.selected_doc_ids[j]) # {}

(* Document d has no chunk in the merged result *)
Starved(d) ==
  \A i \in DOMAIN rag.result.context_chunks :
     rag.result.context_chunks[i].metadata.doc_id # d

(* C16: in a retrieval over two distinct selected documents, each with     *)
(* indexed chunks, and top_k=3, a document is left without any chunk in    *)
(* the merged result only when the result holds 3 chunks of the other      *)
(* document and none of them is farther from the query than any chunk of   *)
(* the starved document; such a retrieval is reachable (C16_Witness).      *)
C16_StarvedOnlyByCloser ==
  TwoDocRetrieval =>
     \A j \in 1..2 :
        LET d == rag.selected_doc_ids[j]
            other == rag.selected_doc_ids[3 - j]
        IN  Starved(d) =>
              /\ Len(rag.result.context_chunks) = ChatTopK
              /\ \A i \in DOMAIN rag.result.context_chunks :
                    /\ rag.result.context_chunks[i].metadata.doc_id = other
                    /\ \A e \in IndexedChunksOf(d) :
                          DistanceLeq(rag.result.context_chunks[i].distance,
                                      DistanceOfEntry(e))

(* A retrieval that starves a document whose chunks are all strictly farther *)
C16_Witness ==
  /\ TwoDocRetrieval
  /\ \E j \in 1..2 :
        /\ Starved(rag.selected_doc_ids[j])
        /\ \A i \in DOMAIN rag.result.context_chunks :
              \A e \in IndexedChunksOf(rag.selected_doc_ids[j]) :
                 DistanceLess(rag.result.context_chunks[i].distance, DistanceOfEntry(e))

(* The context blocks of the prompt of the call *)
ContextBlocks == SelectSeq(rag.result.prompt, LAMBDA b : b.part = "context")

(* C17: in the result of every chat_with_rag call, has_rag_context is true *)
(* exactly when retrieval produced a chunk; sources holds, for each chunk  *)
(* used and in the same order, the filename its index entry carries        *)
(* (duplicates kept), and it has the length and the order of the sections  *)
(* of the prompt's context block.                                          *)
C17_SourcesMatchContext ==
  RagReturned =>
     LET r == rag.result
     IN  /\ r.has_rag_context <=> r.context_chunks # <<>>
         /\ r.has_rag_context <=> r.sources # <<>>
         /\ Len(r.sources) = Len(r.context_chunks)
         /\ r.context_chunks_used = Len(r.sources)
         /\ \A i \in DOMAIN r.sources :
               r.sources[i] = metadata[r.context_chunks[i].index].filename
         /\ IF r.has_rag_context
              THEN /\ Len(ContextBlocks) = 1
                   /\ Len(ContextBlocks[1].sections) = Len(r.sources)
                   /\ \A i \in DOMAIN r.sources :
                         /\ ContextBlocks[1].sections[i].label = r.sources[i]
                         /\ ContextBlocks[1].sections[i].text = r.context_chunks[i].text
              ELSE ContextBlocks = <<>>

C17_Witness ==
  /\ RagReturned
  /\ rag.result.has_rag_context
  /\ Len(rag.result.sources) = 3
  /\ rag.result.sources[1] = rag.result.sources[2]
  /\ rag.result.sources[3] # rag.result.sources[1]

PartsOf(prompt) == [i \in DOMAIN prompt |-> prompt[i].part]

(* C18: the prompt of every chat_with_rag call consists, in this order, of *)
(* the identity instructions, the history block (one line per message of   *)
(* the given history, in the given order, labelled User for role user and  *)
(* Assistant otherwise), the context block (one section per retrieved      *)
(* chunk, labelled with its filename, in retrieval order) and the current  *)
(* user message; the context block is there exactly when retrieval         *)
(* produced a chunk, and without it the identity instructions and the      *)
(* history block are still there.                                          *)
C18_PromptOrder ==
  RagReturned =>
     LET r == rag.result
         h == rag.conversation_history
     IN  /\ PartsOf(r.prompt) =
              (IF r.context_chunks # <<>>
                 THEN <<"identity", "history", "context", "message">>
                 ELSE <<"identity", "history", "message">>)
         /\ Len(r.prompt[2].lines) = Len(h)
         /\ r.prompt[2].header <=> h # <<>>
         /\ \A i \in DOMAIN h :
               /\ r.prompt[2].lines[i].content = h[i].content
               /\ r.prompt[2].lines[i].label =
                    (IF h[i].role = "user" THEN "User" ELSE "Assistant")
         /\ r.context_chunks # <<>> =>
               /\ Len(r.prompt[3].sections) = Len(r.context_chunks)
               /\ \A i \in DOMAIN r.context_chunks :
                     /\ r.prompt[3].sections[i].label =
                          metadata[r.context_chunks[i].index].filename
                     /\ r.prompt[3].sections[i].text = r.context_chunks[i].text
         /\ r.prompt[Len(r.prompt)].text = rag.query

C18_Witness ==
  /\ RagReturned
  /\ Len(rag.conversation_history) = 3
  /\ Len(rag.result.context_chunks) = 3
  /\ Len(rag.result.prompt) = 4

C18_WitnessNoContext ==
  /\ RagReturned
  /\ Len(rag.conversation_history) = 3
  /\ rag.use_rag /\ documents = <<>>
  /\ Len(rag.result.prompt) = 3

ChatAnswered == chat.pc = "done"

(* The request got as far as the generation backend *)
ReachedBackend == chat.body.kind = "object" /\ chat.body.message # ""

BackendFailed == chat.backend \in {"bad_status", "unreachable", "timeout"}

FailureMessages ==
  {"Error: Ollama returned status code", "Error generating response",
   "Sorry, the AI is having trouble right now.", "Cannot connect to Ollama!",
   "An error occurred"}

IsPrefix(s, t) == Len(s) <= Len(t) /\ SubSeq(t, 1, Len(s)) = s

(* C19: when the backend is unreachable, times out or answers with a       *)
(* non-success status, no exception leaves the chat handler: it returns a  *)
(* response whose response field is a failure message, and every message   *)
(* stored before the turn is still stored, unchanged and in place.         *)
C19_BackendFailureAnswered ==
  (ChatAnswered /\ ReachedBackend /\ BackendFailed)
  => /\ ~chat.escaped
     /\ "response" \in chat.response.fields
     /\ chat.response.response \in FailureMessages
     /\ IsPrefix(chat.before, chat.messages)

C19_Witness ==
  /\ ChatAnswered /\ ReachedBackend
  /\ chat.backend = "unreachable"
  /\ ~chat.rag_available
  /\ Len(chat.before) >= 2
  /\ Len(chat.messages) = Len(chat.before) + 2

(* C20: for every request to the chat endpoint, also one without a JSON    *)
(* object as its body, the handler itself returns a response, which        *)
(* carries an error field when the turn failed; no exception leaves the    *)
(* handler or its except blocks.                                           *)
C20_HandlerAlwaysAnswers ==
  ChatAnswered
  => /\ ~chat.escaped
     /\ chat.response.status # 0
     /\ chat.response.status # 200 => "error" \in chat.response.fields

(* C21: after delete_conversation(id) has returned, whatever calls of       *)
(* create_conversation, save_message and delete_conversation came before,  *)
(* the conversation is gone and no row of the messages table carries its   *)
(* conversation_id.                                                        *)
C21_DeleteRemovesMessages ==
  database.last.op = "delete_conversation" =>
     /\ database.last.conversation_id \notin database.conversations
     /\ \A i \in DOMAIN database.messages :
           database.messages[i].conversation_id # database.last.conversation_id

(* C22: whenever a call of add_document or delete_document has returned    *)
(* normally, the snapshot on disk holds exactly the three sequences of the *)
(* store in memory, in the same order.                                     *)
C22_WriteThrough ==
  ((last.op = "add" /\ ~last.raised) \/ last.op = "delete") =>
     /\ disk.state = "valid"
     /\ disk.documents = documents
     /\ disk.vectors = vectors
     /\ disk.metadata = metadata

(* The positions of a sequence of the store that do not belong to doc d *)
PositionsNotOf(seq, metas, d) ==
  SelectSeq([i \in 1..Len(seq) |-> i],
            LAMBDA i : ~(i <= Len(metas) /\ metas[i].doc_id = d))

(* The store st without the entries of document d *)
Without(st, d) ==
  [documents |-> [j \in DOMAIN PositionsNotOf(st.documents, st.metadata, d) |->
                    st.documents[PositionsNotOf(st.documents, st.metadata, d)[j]]],
   vectors |-> [j \in DOMAIN PositionsNotOf(st.vectors, st.metadata, d) |->
                  st.vectors[PositionsNotOf(st.vectors, st.metadata, d)[j]]],
   metadata |-> [j \in DOMAIN PositionsNotOf(st.metadata, st.metadata, d) |->
                   st.metadata[PositionsNotOf(st.metadata, st.metadata, d)[j]]]]

(* Every entry of a is in b, unaltered and at its place *)
EntriesKept(a, b) ==
  /\ IsPrefix(a.documents, b.documents)
  /\ IsPrefix(a.vectors, b.vectors)
  /\ IsPrefix(a.metadata, b.metadata)

(* C23: no step removes, reorders or alters an indexed entry, in memory or *)
(* in the snapshot, except a delete_document(d), and that one only the     *)
(* entries of d: add_document, search and a restart (with a load that      *)
(* succeeds or fails, and mutations after it) keep every entry.            *)
C23_OnlyDeleteRemoves ==
  [][IF last'.op = "delete"
       THEN /\ EntriesKept(Without(Store, last'.doc_id), Without(Store', last'.doc_id))
            /\ EntriesKept(Without(disk, last'.doc_id), Without(disk', last'.doc_id))
       ELSE /\ EntriesKept(Store, Store')
            /\ EntriesKept(disk, disk')]_vars

(* C25: in every reachable state of the store, documents, vectors and      *)
(* metadata have the same length and position i of each describes the same *)
(* chunk: vectors[i] is the vector of documents[i], and metadata[i] is the *)
(* metadata of the chunk whose text is documents[i].                       *)
C25_ParallelSequences ==
  /\ Len(documents) = Len(vectors)
  /\ Len(vectors) = Len(metadata)
  /\ \A i \in DOMAIN documents : vectors[i] = _simple_vectorize(documents[i])

(* The texts that were vectorized: the stored chunks and the last query *)
VectorizedTexts ==
  {documents[i] : i \in DOMAIN documents}
    \cup (IF Searched THEN {last.query} ELSE {})

(* C24: all vectors are built over one vocabulary of the index: dimension  *)
(* i denotes the same token in every stored vector and in the query        *)
(* vector, and any two of them have the same dimensions, so that they are  *)
(* compared without padding.                                               *)
C24_SharedVocabulary ==
  \A s, t \in VectorizedTexts :
     /\ Len(_simple_vectorize(s).c) = Len(_simple_vectorize(t).c)
     /\ \A i \in DOMAIN VocabOf(s) \cap DOMAIN VocabOf(t) : VocabOf(s)[i] = VocabOf(t)[i]

(* Threads t and u have each ended a deletion request, for two documents *)
DeletedBoth(t, u) ==
  /\ t # u
  /\ pc[t] = "done" /\ req[t].kind = "delete" /\ req[t].response # "not_found"
  /\ pc[u] = "done" /\ req[u].kind = "delete" /\ req[u].response # "not_found"
  /\ req[t].doc_id # req[u].doc_id

(* C26: when two deletion requests for different documents A and B have    *)
(* ended, however their steps were interleaved, the index holds no entry   *)
(* of A or B, it still holds every entry of every other document that has  *)
(* its record, and text, vector and metadata are still paired.             *)
C26_OverlappingDeletes ==
  \A t, u \in Threads :
     DeletedBoth(t, u) =>
        /\ \A i \in DOMAIN metadata : metadata[i].doc_id \notin {req[t].doc_id, req[u].doc_id}
        /\ \A d \in DocIds \ {req[t].doc_id, req[u].doc_id} :
              db_rows[d] # "absent" => ChunkIdsInIndex(d) = produced[d][1]
        /\ Len(documents) = Len(metadata) /\ Len(vectors) = Len(metadata)
        /\ \A i \in DOMAIN documents : vectors[i] = _simple_vectorize(documents[i])

(* The index positions whose doc_id is among the selected ones *)
SelectedEntries ==
  { i \in DOMAIN metadata :
      \E j \in DOMAIN rag.selected_doc_ids : metadata[i].doc_id = rag.selected_doc_ids[j] }

(* The distance of every selected entry from the query of the call *)
UnionDistances == [e \in SelectedEntries |-> DistanceOfEntry(e)]

(* One ranking over the union, given its distances: how many selected      *)
(* entries are closer to the query than entry e, or as close and earlier   *)
(* in the index                                                            *)
RankInUnion(dist, e) ==
  Cardinality({ f \in DOMAIN dist :
                  \/ DistanceLess(dist[f], dist[e])
                  \/ (SimEq(dist[f], dist[e]) /\ f < e) })

(* C27: for pairwise-distinct selected_doc_ids and top_k >= 0, the         *)
(* distances of the chunks that retrieve_context_from_docs returns are, in *)
(* order, the distances of the top_k closest entries among all index       *)
(* entries of the selected documents (one ranking over the union), and     *)
(* every selected entry that is strictly closer than the last chunk        *)
(* returned is itself returned: truncating each document to top_k before   *)
(* the merge drops no chunk of the global top_k.                           *)
C27_MergeEqualsUnionRanking ==
  (MultiDocRetrieval /\ rag.top_k >= 0) =>
     LET chunks == rag.result.context_chunks
         dist == UnionDistances
         n == Min(rag.top_k, Cardinality(DOMAIN dist))
     IN  /\ Len(chunks) = n
         /\ \A i \in 1..n :
               \E e \in DOMAIN dist :
                  /\ RankInUnion(dist, e) = i - 1
                  /\ SimEq(chunks[i].distance, dist[e])
         /\ \A e \in DOMAIN dist :
               (n > 0 /\ DistanceLess(dist[e], chunks[n].distance))
               => \E i \in 1..n : chunks[i].index = e

(* Two selected documents hold more than top_k chunks each, and the result *)
(* mixes chunks of both                                                    *)
C27_Witness ==
  /\ MultiDocRetrieval
  /\ rag.top_k = 1
  /\ Len(rag.selected_doc_ids) = 2
  /\ \A j \in 1..2 : Cardinality(IndexedChunksOf(rag.selected_doc_ids[j])) >= 2
  /\ Len(rag.result.context_chunks) = 1
  /\ rag.result.context_chunks[1].metadata.doc_id = rag.selected_doc_ids[2]
  /\ rag.result.context_chunks[1].distance.num > 0

(* C28: in every reachable state, whatever uploads and deletions ran, were *)
(* interleaved or failed, every doc_id found in the vector index has its   *)
(* row in the documents table.                                             *)
C28_IndexedHasRecord ==
  \A i \in DOMAIN metadata : db_rows[metadata[i].doc_id] # "absent"

=============================================================================
